---------------------------- MODULE Spec2Model ----------------------------
(***************************************************************************)
(* A model of the jsonrs codec: the Value data model (src/src/types.rs),   *)
(* the encoder Value::to_json / Value::string_repr (src/src/types.rs) and  *)
(* the slice parser Parser with its one-slot token lookahead               *)
(* (src/src/parse.rs).                                                     *)
(*                                                                         *)
(* Bytes are naturals 0..255 and a buffer is a sequence of bytes; a Rust   *)
(* String is the sequence of its Unicode scalar values (code points).      *)
(* The recursion of read_value / read_object / read_array is an explicit   *)
(* stack of frames, one step per token the parser asks for.                *)
(***************************************************************************)
EXTENDS Integers, Sequences, FiniteSets, TLC

VARIABLES
    input,   \* the Value handed to serialize, or NoValue when bytes are decoded directly
    output,  \* what serialize did: not called yet, returned a text, or panicked
    parser   \* the Parser struct, the call stack of read_value and its outcome

vars == <<input, output, parser>>

---------------------------------------------------------------------------
(* Bytes the code names.                                                   *)

QUOTE     == 34   \* b'"'
BACKSLASH == 92   \* b'\\'
SLASH     == 47   \* b'/'
LBRACE    == 123  \* b'{'
RBRACE    == 125  \* b'}'
LBRACKET  == 91   \* b'['
RBRACKET  == 93   \* b']'
COMMA     == 44   \* b','
COLON     == 58   \* b':'
SPACE     == 32   \* b' '
PLUS      == 43   \* b'+'
MINUS     == 45   \* b'-'
DOT       == 46   \* b'.'

\* is_whitespace with the tab left out of the pattern.
is_whitespace_without_tab(b) == b \in {32, 10, 13}

is_whitespace(b) == b \in {32, 10, 13, 9}           \* ' ' '\n' '\r' '\t'

\* is_delimiter with the comma left out of the pattern.
is_delimiter_without_comma(b) == b \in {LBRACE, RBRACE, LBRACKET, RBRACKET, COLON}

is_delimiter(b) == b \in {LBRACE, RBRACE, LBRACKET, RBRACKET, COLON, COMMA}

IsDigit(b) == b \in 48..57

\* The value of an ASCII hexadecimal digit, -1 for any other byte.
HexVal(b) ==
    IF b \in 48..57 THEN b - 48
    ELSE IF b \in 65..70 THEN b - 55
    ELSE IF b \in 97..102 THEN b - 87
    ELSE -1

\* ASCII lower case of a byte, as eq_ignore_ascii_case compares.
Lower(b) == IF b \in 65..90 THEN b + 32 ELSE b

LowerAll(bs) == [i \in 1..Len(bs) |-> Lower(bs[i])]

\* 0-based access to the buffer, as self.buf[self.pos].
At(buf, pos) == buf[pos + 1]

\* The slice buf[from..to] (from inclusive, to exclusive, 0-based).
Slice(buf, from, to) == SubSeq(buf, from + 1, to)

---------------------------------------------------------------------------
(* Numbers.  An f64 is modelled by its decimal value: sign, coefficient c  *)
(* and exponent e with value c * 10^e, c not divisible by 10 unless the    *)
(* value is zero; kind tells a finite value from an infinity or a NaN.     *)
(* Within the model's bounds every decimal text denotes a distinct f64, so *)
(* rounding does not merge two of them.                                    *)

RECURSIVE Normalize(_, _, _)
Normalize(neg, c, e) ==
    IF c = 0 THEN [kind |-> "fin", neg |-> neg, c |-> 0, e |-> 0]
    ELSE IF c % 10 = 0 THEN Normalize(neg, c \div 10, e + 1)
    ELSE [kind |-> "fin", neg |-> neg, c |-> c, e |-> e]

\* f64's PartialEq: a NaN equals nothing, the two zeros are equal.
NumEq(a, b) ==
    /\ a.kind # "nan" /\ b.kind # "nan"
    /\ a.kind = b.kind
    /\ a.c = b.c /\ a.e = b.e
    /\ (a.neg = b.neg \/ (a.kind = "fin" /\ a.c = 0))

\* The longest prefix of bs made of ASCII digits.
RECURSIVE DigitPrefixLen(_, _)
DigitPrefixLen(bs, i) ==
    IF i < Len(bs) /\ IsDigit(bs[i + 1]) THEN DigitPrefixLen(bs, i + 1) ELSE i

RECURSIVE DigitsToNat(_)
DigitsToNat(ds) ==
    IF ds = <<>> THEN 0
    ELSE 10 * DigitsToNat(SubSeq(ds, 1, Len(ds) - 1)) + (ds[Len(ds)] - 48)

ParseErr == [ok |-> FALSE]

\* The exponent part after 'e' or 'E': an optional sign and at least one
\* digit, nothing after them.
ExponentDigits(neg, ds) ==
    IF ds = <<>> \/ DigitPrefixLen(ds, 0) # Len(ds) THEN ParseErr
    ELSE [ok |-> TRUE, v |-> IF neg THEN 0 - DigitsToNat(ds) ELSE DigitsToNat(ds)]

ParseExponent(bs) ==
    IF bs # <<>> /\ bs[1] \in {PLUS, MINUS}
    THEN ExponentDigits(bs[1] = MINUS, Tail(bs))
    ELSE ExponentDigits(FALSE, bs)

WithExponent(neg, digits, nf, ex) ==
    IF ~ex.ok THEN ParseErr
    ELSE [ok |-> TRUE, v |-> Normalize(neg, DigitsToNat(digits), ex.v - nf)]

\* The digits of the integer part and of the fraction, and what follows.
ParseMantissa(neg, int, frac, rest) ==
    IF Len(int) + Len(frac) = 0 THEN ParseErr
    ELSE IF rest = <<>>
         THEN WithExponent(neg, int \o frac, Len(frac), [ok |-> TRUE, v |-> 0])
    ELSE IF rest[1] \in {101, 69}                       \* 'e' 'E'
         THEN WithExponent(neg, int \o frac, Len(frac), ParseExponent(Tail(rest)))
    ELSE ParseErr

ParseFraction(neg, int, after, nf) ==
    ParseMantissa(neg, int, SubSeq(after, 1, nf), SubSeq(after, nf + 1, Len(after)))

ParseDecimal(neg, body, ni) ==
    IF ni < Len(body) /\ body[ni + 1] = DOT
    THEN ParseFraction(neg, SubSeq(body, 1, ni), SubSeq(body, ni + 2, Len(body)),
                       DigitPrefixLen(SubSeq(body, ni + 2, Len(body)), 0))
    ELSE ParseMantissa(neg, SubSeq(body, 1, ni), <<>>, SubSeq(body, ni + 1, Len(body)))

ParseUnsigned(neg, body) ==
    IF body = <<>> THEN ParseErr
    ELSE IF LowerAll(body) \in {<<105, 110, 102>>,                        \* inf
                                <<105, 110, 102, 105, 110, 105, 116, 121>>}  \* infinity
         THEN [ok |-> TRUE, v |-> [kind |-> "inf", neg |-> neg, c |-> 0, e |-> 0]]
    ELSE IF LowerAll(body) = <<110, 97, 110>>                             \* nan
         THEN [ok |-> TRUE, v |-> [kind |-> "nan", neg |-> neg, c |-> 0, e |-> 0]]
    ELSE ParseDecimal(neg, body, DigitPrefixLen(body, 0))

\* str::parse::<f64>: [sign] (inf | infinity | nan | digits [. digits] [exp]),
\* at least one digit in the integer or the fraction part, the whole text used.
ParseF64(bs) ==
    IF bs # <<>> /\ bs[1] \in {PLUS, MINUS}
    THEN ParseUnsigned(bs[1] = MINUS, Tail(bs))
    ELSE ParseUnsigned(FALSE, bs)

RECURSIVE NatToDigits(_)
NatToDigits(n) ==
    IF n < 10 THEN <<48 + n>>
    ELSE Append(NatToDigits(n \div 10), 48 + (n % 10))

Zeros(k) == [i \in 1..k |-> 48]

\* The digits ds of the coefficient with the point k places from the right.
PlacePoint(ds, k) ==
    IF Len(ds) > k
    THEN SubSeq(ds, 1, Len(ds) - k) \o <<DOT>> \o SubSeq(ds, Len(ds) - k + 1, Len(ds))
    ELSE <<48, DOT>> \o Zeros(k - Len(ds)) \o ds

FormatMagnitude(n) ==
    IF n.kind = "inf" THEN <<105, 110, 102>>             \* inf
    ELSE IF n.e >= 0 THEN NatToDigits(n.c) \o Zeros(n.e)
    ELSE PlacePoint(NatToDigits(n.c), 0 - n.e)

\* f64's Display (n.to_string()): positional notation, never an exponent,
\* the shortest digits that read back to the same value.
FormatF64(n) ==
    IF n.kind = "nan" THEN <<78, 97, 78>>               \* NaN
    ELSE IF n.neg THEN <<MINUS>> \o FormatMagnitude(n)
    ELSE FormatMagnitude(n)

---------------------------------------------------------------------------
(* Unicode.                                                               *)

\* char::is_ascii_control: U+0000..U+001F and U+007F.
is_ascii_control(c) == c \in 0..31 \/ c = 127

is_ascii(c) == c < 128

\* char::from_u32 succeeds on the Unicode scalar values: not a surrogate,
\* not above U+10FFFF.
IsScalarValue(code) == code \in 0..1114111 /\ code \notin 55296..57343

\* u32::from_str_radix(text, 16): an optional leading '+', then one or more
\* hexadecimal digits of either case; str::from_utf8 has already refused
\* bytes that are no text, and any other byte is an invalid digit.
RECURSIVE HexToNat(_)
HexToNat(ds) ==
    IF ds = <<>> THEN 0
    ELSE 16 * HexToNat(SubSeq(ds, 1, Len(ds) - 1)) + HexVal(ds[Len(ds)])

HexDigitsValue(ds) ==
    IF ds = <<>> \/ \E i \in 1..Len(ds) : HexVal(ds[i]) < 0 THEN ParseErr
    ELSE [ok |-> TRUE, v |-> HexToNat(ds)]

from_str_radix(hex) ==
    IF hex # <<>> /\ hex[1] = PLUS THEN HexDigitsValue(Tail(hex))
    ELSE HexDigitsValue(hex)

---------------------------------------------------------------------------
(* Tokens and the tokenizer.  Every tokenizer operator takes the buffer    *)
(* and the cursor and gives back the outcome with the cursor it leaves.    *)

Tok(k) == [k |-> k]
TokString(s) == [k |-> "String", s |-> s]
TokNumber(n) == [k |-> "Number", n |-> n]
TokBoolean(b) == [k |-> "Boolean", b |-> b]

Got(tok, pos) == [ok |-> TRUE, tok |-> tok, pos |-> pos]
Fail(err, pos) == [ok |-> FALSE, err |-> err, pos |-> pos]

RECURSIVE skip_whitespace(_, _)
skip_whitespace(buf, pos) ==
    IF pos < Len(buf) /\ is_whitespace(At(buf, pos))
    THEN skip_whitespace(buf, pos + 1)
    ELSE pos

\* The \u arm of read_string: four read_byte calls, then the conversion.
\* The outcome is the code point and the cursor, or the error.
ReadHex4Width == 4

CodeToChar(code, pos) ==
    IF ~code.ok THEN Fail("invalid digit found in string", pos)
    ELSE IF ~IsScalarValue(code.v) THEN Fail("invalid unicode code point", pos)
    ELSE [ok |-> TRUE, ch |-> code.v, pos |-> pos]

read_unicode_escape(buf, pos) ==
    IF pos + ReadHex4Width > Len(buf) THEN Fail("EOF", Len(buf))
    ELSE CodeToChar(from_str_radix(Slice(buf, pos, pos + ReadHex4Width)),
                    pos + ReadHex4Width)

\* The character a one-letter escape stands for, -1 when the letter is none.
NamedEscape(b) ==
    IF b \in {QUOTE, BACKSLASH, SLASH} THEN b
    ELSE IF b = 98 THEN 8        \* b'b' => '\x08'
    ELSE IF b = 102 THEN 12      \* b'f' => '\x0c'
    ELSE IF b = 110 THEN 10      \* b'n' => '\n'
    ELSE IF b = 114 THEN 13      \* b'r' => '\r'
    ELSE IF b = 116 THEN 9       \* b't' => '\t'
    ELSE -1

\* The character pushed for a byte that is neither '"' nor '\\': x as char,
\* the scalar value with the byte's own number.
ByteAsChar(x) == x

\* read_string's loop, entered after the opening quote, s the text so far.
RECURSIVE read_string_from(_, _, _)

AfterUnicodeEscape(buf, s, u) ==
    IF u.ok THEN read_string_from(buf, u.pos, Append(s, u.ch)) ELSE u

\* The arm for b'\\': e is the byte after it, pos the cursor after e.
ReadEscape(buf, pos, s, e) ==
    IF e = 117                                              \* b'u'
    THEN AfterUnicodeEscape(buf, s, read_unicode_escape(buf, pos))
    ELSE IF NamedEscape(e) >= 0
         THEN read_string_from(buf, pos, Append(s, NamedEscape(e)))
    ELSE Fail("expected escape", pos)

read_string_from(buf, pos, s) ==
    IF pos >= Len(buf) THEN Fail("EOF", pos)
    ELSE IF At(buf, pos) = QUOTE THEN Got(TokString(s), pos + 1)
    ELSE IF At(buf, pos) = BACKSLASH
         THEN IF pos + 1 >= Len(buf) THEN Fail("EOF", pos + 1)
              ELSE ReadEscape(buf, pos + 2, s, At(buf, pos + 1))
    ELSE read_string_from(buf, pos + 1, Append(s, ByteAsChar(At(buf, pos))))

read_string(buf, pos) == read_string_from(buf, pos, <<>>)

\* The end of the run of bytes read_term takes from pos.
RECURSIVE term_end(_, _)
term_end(buf, pos) ==
    IF pos < Len(buf) /\ ~is_whitespace(At(buf, pos)) /\ ~is_delimiter(At(buf, pos))
    THEN term_end(buf, pos + 1)
    ELSE pos

\* str::from_utf8 of a term: the model's terms that are text are ASCII.
IsAsciiText(bs) == \A i \in 1..Len(bs) : bs[i] < 128

NumberToken(n, end) ==
    IF ~n.ok THEN Fail("invalid float literal", end) ELSE Got(TokNumber(n.v), end)

\* The match of read_term on the bytes x = buf[start..end].
MatchTerm(x, end) ==
    IF x = <<116, 114, 117, 101>> THEN Got(TokBoolean(TRUE), end)             \* b"true"
    ELSE IF x = <<102, 97, 108, 115, 101>> THEN Got(TokBoolean(FALSE), end)   \* b"false"
    ELSE IF x = <<110, 117, 108, 108>> THEN Got(Tok("Null"), end)             \* b"null"
    ELSE IF ~IsAsciiText(x) THEN Fail("invalid utf-8", end)
    ELSE NumberToken(ParseF64(x), end)

TermTo(buf, start, end) == MatchTerm(Slice(buf, start, end), end)

read_term(buf, pos) == TermTo(buf, pos, term_end(buf, pos))

\* read_token's match on the byte b = read_byte(), pos the cursor after it.
DispatchByte(buf, pos, b) ==
    IF b = QUOTE THEN read_string(buf, pos)
    ELSE IF b = LBRACKET THEN Got(Tok("LAngle"), pos)
    ELSE IF b = RBRACKET THEN Got(Tok("RAngle"), pos)
    ELSE IF b = LBRACE THEN Got(Tok("LBrace"), pos)
    ELSE IF b = RBRACE THEN Got(Tok("RBrace"), pos)
    ELSE IF b = COMMA THEN Got(Tok("Comma"), pos)
    ELSE IF b = COLON THEN Got(Tok("Colon"), pos)
    ELSE read_term(buf, pos - 1)                        \* self.pos -= 1

\* read_token after skip_whitespace has left the cursor at pos.
TokenAt(buf, pos) ==
    IF pos >= Len(buf) THEN Fail("EOF", pos)
    ELSE DispatchByte(buf, pos + 1, At(buf, pos))

\* read_token with an empty cache: skip whitespace, read one byte, dispatch.
lex_token(buf, pos) == TokenAt(buf, skip_whitespace(buf, pos))

---------------------------------------------------------------------------
(* Values (types.rs, enum Value).  An Object is a function from its keys  *)
(* to their values: a HashMap holds each key once.                         *)

VString(s)  == [t |-> "String", s |-> s]
VNumber(n)  == [t |-> "Number", n |-> n]
VBoolean(b) == [t |-> "Boolean", b |-> b]
VNull       == [t |-> "Null"]
VArray(a)   == [t |-> "Array", a |-> a]
VObject(o)  == [t |-> "Object", o |-> o]

EmptyMap == [k \in {} |-> VNull]

\* An insert that keeps the value a key already has.
MapInsertKeepsFirst(d, k, v) ==
    [x \in (DOMAIN d) \cup {k} |-> IF x \in DOMAIN d THEN d[x] ELSE v]

\* HashMap::insert: the key now maps to v, whatever it mapped to before.
MapInsert(d, k, v) ==
    [x \in (DOMAIN d) \cup {k} |-> IF x = k THEN v ELSE d[x]]

---------------------------------------------------------------------------
(* The parser.  A Parser is buf, pos and cache; the model adds the stack   *)
(* of calls of read_object and read_array that are open, and the outcome   *)
(* of the outermost read_value.                                            *)

NoCache == [some |-> FALSE]
NoResult == [none |-> TRUE]
Ok(v) == [ok |-> TRUE, value |-> v]
Err(e) == [ok |-> FALSE, err |-> e]
Cached(res) == [some |-> TRUE, res |-> res]

\* Parser::new
ParserNew(buf) ==
    [buf |-> buf, pos |-> 0, cache |-> NoCache,
     stack |-> <<>>, status |-> "running", result |-> NoResult]

\* A parser that was never given a buffer.
ParserIdle ==
    [buf |-> <<>>, pos |-> 0, cache |-> NoCache,
     stack |-> <<>>, status |-> "idle", result |-> NoResult]

ObjectFrame == [fn |-> "read_object", pc |-> "peek", d |-> EmptyMap, k |-> <<>>]
ArrayFrame  == [fn |-> "read_array", pc |-> "peek", arr |-> <<>>]

\* A freshly read token: the outcome r of the tokenizer, as the Result that
\* read_token returns, and the parser with the cursor the tokenizer left.
Fresh(p, r) ==
    [res |-> IF r.ok THEN [ok |-> TRUE, tok |-> r.tok] ELSE Err(r.err),
     p   |-> [p EXCEPT !.pos = r.pos]]

\* read_token with the cache read but not emptied (clone() for take()).
read_token_keeps_cache(p) ==
    IF p.cache.some
    THEN [res |-> p.cache.res, p |-> p]
    ELSE Fresh(p, lex_token(p.buf, p.pos))

\* read_token: the cached outcome if there is one (cache.take()), or a
\* fresh token.  Gives the outcome res and the parser p after the call.
read_token(p) ==
    IF p.cache.some
    THEN [res |-> p.cache.res, p |-> [p EXCEPT !.cache = NoCache]]
    ELSE Fresh(p, lex_token(p.buf, p.pos))

Keep(r) == [res |-> r.res, p |-> [r.p EXCEPT !.cache = Cached(r.res)]]

\* peek_token: read_token, its outcome kept in the cache.
peek_token(p) == Keep(read_token(p))

\* An error return: with `?` every open call returns it in turn.
Raise(p, err) ==
    [p EXCEPT !.status = "err", !.stack = <<>>, !.result = Err(err)]

Top(p) == p.stack[Len(p.stack)]

Pop(stack) == SubSeq(stack, 1, Len(stack) - 1)

\* The parser with the frame of the innermost open call replaced.
SetTop(p, frame) == [p EXCEPT !.stack[Len(p.stack)] = frame]

\* The innermost open call receives the value read_value returned to it:
\* read_object (line 116-118) inserts it under the pending key, read_array
\* (line 145) pushes it; then each reads a comma or its closing token.
Receive(f, v) ==
    IF f.fn = "read_object"
    THEN [f EXCEPT !.d = MapInsert(f.d, f.k, v), !.pc = "sep"]
    ELSE [f EXCEPT !.arr = Append(f.arr, v), !.pc = "sep"]

\* read_value returns v: to deserialize when no call is open, or to the
\* innermost open call.
Return(p, v) ==
    IF p.stack = <<>>
    THEN [p EXCEPT !.status = "ok", !.result = Ok(v)]
    ELSE SetTop(p, Receive(Top(p), v))

\* The innermost open call returns v to the read_value that called it,
\* which returns it in turn.
ReturnFromCall(p, v) == Return([p EXCEPT !.stack = Pop(p.stack)], v)

\* read_value's match on the token.
ValueOfToken(q, tok) ==
    CASE tok.k = "LBrace"  -> [q EXCEPT !.stack = Append(q.stack, ObjectFrame)]
      [] tok.k = "LAngle"  -> [q EXCEPT !.stack = Append(q.stack, ArrayFrame)]
      [] tok.k = "String"  -> Return(q, VString(tok.s))
      [] tok.k = "Number"  -> Return(q, VNumber(tok.n))
      [] tok.k = "Boolean" -> Return(q, VBoolean(tok.b))
      [] tok.k = "Null"    -> Return(q, VNull)
      [] OTHER             -> Raise(q, "unexpected token")

ValueOf(r) ==
    IF ~r.res.ok THEN Raise(r.p, r.res.err) ELSE ValueOfToken(r.p, r.res.tok)

\* read_value up to the call of read_object or read_array, or to its return.
read_value(p) == ValueOf(read_token(p))

ObjectPeeked(r) ==
    IF ~r.res.ok THEN Raise(r.p, r.res.err)
    ELSE IF r.res.tok.k = "RBrace"
         THEN ReturnFromCall(read_token(r.p).p, VObject(Top(r.p).d))
    ELSE SetTop(r.p, [Top(r.p) EXCEPT !.pc = "key"])

\* read_object, lines 95-102: peek; on the closing brace take it and return.
read_object_peek(p) == ObjectPeeked(peek_token(p))

ObjectKey(r) ==
    IF ~r.res.ok THEN Raise(r.p, r.res.err)
    ELSE IF r.res.tok.k = "String"
         THEN SetTop(r.p, [Top(r.p) EXCEPT !.k = r.res.tok.s, !.pc = "colon"])
    ELSE Raise(r.p, "expected string")

\* read_object, lines 104-107: the key.
read_object_key(p) == ObjectKey(read_token(p))

ObjectColon(r) ==
    IF ~r.res.ok THEN Raise(r.p, r.res.err)
    ELSE IF r.res.tok.k = "Colon"
         THEN SetTop(r.p, [Top(r.p) EXCEPT !.pc = "value"])
    ELSE Raise(r.p, "expected colon")

\* read_object, lines 109-114: the colon.
read_object_colon(p) == ObjectColon(read_token(p))

ObjectSep(r) ==
    IF ~r.res.ok THEN Raise(r.p, r.res.err)
    ELSE IF r.res.tok.k = "Comma"
         THEN SetTop(r.p, [Top(r.p) EXCEPT !.pc = "peek"])
    ELSE IF r.res.tok.k = "RBrace"
         THEN ReturnFromCall(r.p, VObject(Top(r.p).d))
    ELSE Raise(r.p, "expected comma or }")

\* read_object, lines 120-126: a comma or the closing brace.
read_object_sep(p) == ObjectSep(read_token(p))

ArrayPeeked(r) ==
    IF ~r.res.ok THEN Raise(r.p, r.res.err)
    ELSE IF r.res.tok.k = "RAngle"
         THEN ReturnFromCall(read_token(r.p).p, VArray(Top(r.p).arr))
    ELSE SetTop(r.p, [Top(r.p) EXCEPT !.pc = "value"])

\* read_array, lines 136-143: peek; on the closing bracket take it and return.
read_array_peek(p) == ArrayPeeked(peek_token(p))

ArraySep(r) ==
    IF ~r.res.ok THEN Raise(r.p, r.res.err)
    ELSE IF r.res.tok.k = "Comma"
         THEN SetTop(r.p, [Top(r.p) EXCEPT !.pc = "peek"])
    ELSE IF r.res.tok.k = "RAngle"
         THEN ReturnFromCall(r.p, VArray(Top(r.p).arr))
    ELSE Raise(r.p, "expected comma or ]")

\* read_array, lines 146-150: a comma or the closing bracket.
read_array_sep(p) == ArraySep(read_token(p))

\* Where the parser stands: the step it takes next.
AtReadValue(p) ==
    /\ p.status = "running"
    /\ IF p.stack = <<>> THEN TRUE ELSE Top(p).pc = "value"

AtFrame(p, fn, pc) ==
    p.status = "running" /\ p.stack # <<>> /\ Top(p).fn = fn /\ Top(p).pc = pc

\* One step of the parser, whichever it is.
ParserStep(p) ==
    CASE AtReadValue(p)                     -> read_value(p)
      [] AtFrame(p, "read_object", "peek")  -> read_object_peek(p)
      [] AtFrame(p, "read_object", "key")   -> read_object_key(p)
      [] AtFrame(p, "read_object", "colon") -> read_object_colon(p)
      [] AtFrame(p, "read_object", "sep")   -> read_object_sep(p)
      [] AtFrame(p, "read_array", "peek")   -> read_array_peek(p)
      [] AtFrame(p, "read_array", "sep")    -> read_array_sep(p)
      [] OTHER                              -> p

RECURSIVE RunParser(_)
RunParser(p) == IF p.status = "running" THEN RunParser(ParserStep(p)) ELSE p

\* deserialize(json): Parser::new(json).read_value(), as a Result.
deserialize(json) == RunParser(ParserNew(json)).result

---------------------------------------------------------------------------
(* The encoder (types.rs).  A text is a sequence of characters; what      *)
(* string_repr and to_json give is the text, or the panic of line 93.      *)

Panic == [panic |-> TRUE]
Text(t) == [panic |-> FALSE, text |-> t]

HexDigitUpper(d) == IF d < 10 THEN 48 + d ELSE 55 + d

RECURSIVE HexDigitsUpper(_)
HexDigitsUpper(n) ==
    IF n < 16 THEN <<HexDigitUpper(n)>>
    ELSE Append(HexDigitsUpper(n \div 16), HexDigitUpper(n % 16))

HexMinWidth == 4

PadZeros(ds, width) ==
    IF Len(ds) >= width THEN ds ELSE Zeros(width - Len(ds)) \o ds

\* format!("{:04X}", n): upper-case hexadecimal, padded with zeros to a
\* width of at least 4.
FormatHex04X(n) == PadZeros(HexDigitsUpper(n), HexMinWidth)

\* One arm of string_repr's match: what is written for the character c;
\* <<>> stands for the arm that panics.
escape_char(c) ==
    IF c \in {QUOTE, BACKSLASH, SLASH} THEN <<BACKSLASH, c>>
    ELSE IF c = 8 THEN <<BACKSLASH, 98>>        \* "\\b"
    ELSE IF c = 12 THEN <<BACKSLASH, 102>>      \* "\\f"
    ELSE IF c = 10 THEN <<BACKSLASH, 110>>      \* "\\n"
    ELSE IF c = 13 THEN <<BACKSLASH, 114>>      \* "\\r"
    ELSE IF c = 9 THEN <<BACKSLASH, 116>>       \* "\\t"
    ELSE IF is_ascii_control(c) THEN <<>>       \* panic!
    ELSE IF is_ascii(c) THEN <<c>>
    ELSE <<BACKSLASH, 117>> \o FormatHex04X(c)  \* "\\u{:04X}"

RECURSIVE Concat(_)
Concat(parts) ==
    IF parts = <<>> THEN <<>> ELSE parts[1] \o Concat(Tail(parts))

string_repr(s) ==
    IF \E i \in 1..Len(s) : escape_char(s[i]) = <<>> THEN Panic
    ELSE Text(<<QUOTE>> \o Concat([i \in 1..Len(s) |-> escape_char(s[i])]) \o <<QUOTE>>)

\* items.join(", ") over every choice of one outcome per item; a panic in
\* any item is the panic of the whole.
RECURSIVE JoinItems(_)
JoinItems(items) ==
    IF items = <<>> THEN {Text(<<>>)}
    ELSE { IF h.panic \/ t.panic THEN Panic
           ELSE IF Len(items) = 1 THEN h
           ELSE Text(h.text \o <<COMMA, SPACE>> \o t.text)
           : h \in items[1], t \in JoinItems(Tail(items)) }

\* The orders in which a HashMap may hand out its keys: every one.
KeyOrders(keys) ==
    { ord \in [1..Cardinality(keys) -> keys] :
        \A i, j \in 1..Cardinality(keys) : ord[i] = ord[j] => i = j }

Wrap(open, o, close) ==
    IF o.panic THEN Panic ELSE Text(<<open>> \o o.text \o <<close>>)

\* format!("{}: {}", string_repr(k), v.to_json())
Member(k, o) ==
    IF k.panic \/ o.panic THEN Panic
    ELSE Text(k.text \o <<COLON, SPACE>> \o o.text)

\* Value::to_json: the outcomes it may have, one per iteration order of the
\* objects in the tree.
RECURSIVE to_json(_)
to_json(v) ==
    CASE v.t = "String"  -> {string_repr(v.s)}
      [] v.t = "Number"  -> {Text(FormatF64(v.n))}
      [] v.t = "Boolean" -> {Text(IF v.b THEN <<116, 114, 117, 101>>
                                  ELSE <<102, 97, 108, 115, 101>>)}
      [] v.t = "Null"    -> {Text(<<110, 117, 108, 108>>)}
      [] v.t = "Array"   ->
           { Wrap(LBRACKET, o, RBRACKET) :
               o \in JoinItems([i \in 1..Len(v.a) |-> to_json(v.a[i])]) }
      [] v.t = "Object"  ->
           UNION { { Wrap(LBRACE, o, RBRACE) :
                       o \in JoinItems([i \in 1..Len(ord) |->
                              { Member(string_repr(ord[i]), m) :
                                  m \in to_json(v.o[ord[i]]) }]) }
                   : ord \in KeyOrders(DOMAIN v.o) }

\* serialize(val): val.to_json()
serialize(val) == to_json(val)

\* The bytes of a text (String::as_bytes): UTF-8.
Utf8Encode(c) ==
    IF c < 128 THEN <<c>>
    ELSE IF c < 2048 THEN <<192 + (c \div 64), 128 + (c % 64)>>
    ELSE IF c < 65536
         THEN <<224 + (c \div 4096), 128 + ((c \div 64) % 64), 128 + (c % 64)>>
    ELSE <<240 + (c \div 262144), 128 + ((c \div 4096) % 64),
           128 + ((c \div 64) % 64), 128 + (c % 64)>>

as_bytes(text) == Concat([i \in 1..Len(text) |-> Utf8Encode(text[i])])

(* Bounds of the model, and the inputs drawn within them.                 *)

MaxPieces  == 3   \* lexemes in a free-form input
MaxStrLen  == 2   \* characters in a string
MaxItems   == 2   \* elements of an array, members of an object value
MaxMembers == 2   \* members written in an object literal
MaxWs      == 1   \* bytes in an inserted run of whitespace

SeqsUpTo(S, n) == UNION { [1..k -> S] : k \in 0..n }

Zero     == Normalize(FALSE, 0, 0)
NegZero  == [kind |-> "fin", neg |-> TRUE, c |-> 0, e |-> 0]
NaN      == [kind |-> "nan", neg |-> FALSE, c |-> 0, e |-> 0]

\* 'a', '"', '\n', U+00F6, U+20AC, U+1F600, U+0001, U+007F
StrChars == {97, 34, 10, 246, 8364, 128512, 1, 127}

Strings == SeqsUpTo(StrChars, MaxStrLen)

\* 0, -0, 1, -1.5, 120, 0.05, NaN
Numbers ==
    {Zero, NegZero, Normalize(FALSE, 1, 0), Normalize(TRUE, 15, -1),
     Normalize(FALSE, 12, 1), Normalize(FALSE, 5, -2), NaN}

Scalars ==
    {VString(s) : s \in Strings} \cup {VNumber(n) : n \in Numbers}
      \cup {VBoolean(TRUE), VBoolean(FALSE), VNull}

Keys == {<<97>>, <<246>>, <<34, 97>>}

\* What a container of the value tree may hold.
Elems ==
    {VString(<<97>>), VNumber(Normalize(TRUE, 15, -1)), VNull,
     VArray(<<VNumber(Zero)>>), VObject([k \in {<<98>>} |-> VArray(<<>>)])}

Values ==
    Scalars
      \cup {VArray(a) : a \in SeqsUpTo(Elems, MaxItems)}
      \cup UNION { {VObject(o) : o \in [ks -> Elems]} :
                     ks \in {K \in SUBSET Keys : Cardinality(K) <= MaxItems} }

\* Free-form inputs: up to MaxPieces lexemes, one after the other.
\* [ ] { } , : space 1 "a" true
Pieces ==
    {<<LBRACKET>>, <<RBRACKET>>, <<LBRACE>>, <<RBRACE>>, <<COMMA>>, <<COLON>>,
     <<SPACE>>, <<49>>, <<QUOTE, 97, QUOTE>>, <<116, 114, 117, 101>>}

PieceInputs == {Concat(ps) : ps \in SeqsUpTo(Pieces, MaxPieces)}

\* String literals without a backslash: the UTF-8 bytes of the characters
\* 'a', ' ', U+00F6, U+20AC, U+1F600 between two quotes.
LiteralChars == {97, 32, 246, 8364, 128512}

StringLiteral(cs) == <<QUOTE>> \o as_bytes(cs) \o <<QUOTE>>

LiteralInputs == {StringLiteral(cs) : cs \in SeqsUpTo(LiteralChars, MaxStrLen)}

\* A string literal holding one \u escape: the bytes after the u are up to
\* four of '0' '4' '8' 'D' 'e' '+' 'x', followed by nothing, by the closing
\* quote, or by a '1' and the closing quote.
HexSample == {48, 52, 56, 68, 101, PLUS, 120}

EscapeLiteral(hs, tail) == <<QUOTE, BACKSLASH, 117>> \o hs \o tail

EscapeInputs ==
    {EscapeLiteral(hs, tail) :
        hs \in SeqsUpTo(HexSample, ReadHex4Width),
        tail \in {<<>>, <<QUOTE>>, <<49, QUOTE>>}}

\* Object literals: members "k":v from a list, with or without a comma
\* after the last one.  Keys "a", "b"; values 1, 2, [].
MemberKeys == {<<97>>, <<98>>}
MemberTexts == {<<49>>, <<50>>, <<LBRACKET, RBRACKET>>}
MemberLists == SeqsUpTo(MemberKeys \X MemberTexts, MaxMembers)

RECURSIVE JoinWith(_, _)
JoinWith(parts, sep) ==
    IF parts = <<>> THEN <<>>
    ELSE IF Len(parts) = 1 THEN parts[1]
    ELSE parts[1] \o sep \o JoinWith(Tail(parts), sep)

ObjectLiteral(ms, trailing) ==
    <<LBRACE>>
      \o JoinWith([i \in 1..Len(ms) |->
                     <<QUOTE>> \o ms[i][1] \o <<QUOTE, COLON>> \o ms[i][2]], <<COMMA>>)
      \o (IF trailing THEN <<COMMA>> ELSE <<>>) \o <<RBRACE>>

ArrayLiteral(items, trailing) ==
    <<LBRACKET>> \o JoinWith(items, <<COMMA>>)
      \o (IF trailing THEN <<COMMA>> ELSE <<>>) \o <<RBRACKET>>

ObjectInputs == {ObjectLiteral(ms, tr) : ms \in MemberLists, tr \in BOOLEAN}

ArrayInputs ==
    {ArrayLiteral(items, tr) :
        items \in SeqsUpTo(MemberTexts \cup {<<LBRACE, RBRACE>>}, MaxItems),
        tr \in BOOLEAN}

Inputs ==
    PieceInputs \cup LiteralInputs \cup EscapeInputs \cup ObjectInputs \cup ArrayInputs

---------------------------------------------------------------------------
(* The state machine.                                                      *)

NoValue == [t |-> "None"]
NotCalled == [state |-> "not called"]
Returned(text) == [state |-> "returned", text |-> text]
Panicked == [state |-> "panicked"]

\* Either a buffer is handed to deserialize (parse.rs:218), or a Value is
\* about to be handed to serialize (parse.rs:222).
Init ==
    \/ /\ input = NoValue
       /\ output = NotCalled
       /\ \E buf \in Inputs : parser = ParserNew(buf)
    \/ /\ input \in Values
       /\ output = NotCalled
       /\ parser = ParserIdle

\* serialize(input): the text, with the members of each object in one of
\* the orders its map may iterate in, or the panic.
Serialize ==
    /\ input # NoValue
    /\ output = NotCalled
    /\ \E o \in serialize(input) :
          output' = IF o.panic THEN Panicked ELSE Returned(o.text)
    /\ UNCHANGED <<input, parser>>

\* deserialize(output.as_bytes()): the parser is made over the text's bytes.
Deserialize ==
    /\ output.state = "returned"
    /\ parser.status = "idle"
    /\ parser' = ParserNew(as_bytes(output.text))
    /\ UNCHANGED <<input, output>>

ReadValue ==
    /\ AtReadValue(parser)
    /\ parser' = read_value(parser)
    /\ UNCHANGED <<input, output>>

ReadObjectPeek ==
    /\ AtFrame(parser, "read_object", "peek")
    /\ parser' = read_object_peek(parser)
    /\ UNCHANGED <<input, output>>

ReadObjectKey ==
    /\ AtFrame(parser, "read_object", "key")
    /\ parser' = read_object_key(parser)
    /\ UNCHANGED <<input, output>>

ReadObjectColon ==
    /\ AtFrame(parser, "read_object", "colon")
    /\ parser' = read_object_colon(parser)
    /\ UNCHANGED <<input, output>>

ReadObjectSep ==
    /\ AtFrame(parser, "read_object", "sep")
    /\ parser' = read_object_sep(parser)
    /\ UNCHANGED <<input, output>>

ReadArrayPeek ==
    /\ AtFrame(parser, "read_array", "peek")
    /\ parser' = read_array_peek(parser)
    /\ UNCHANGED <<input, output>>

ReadArraySep ==
    /\ AtFrame(parser, "read_array", "sep")
    /\ parser' = read_array_sep(parser)
    /\ UNCHANGED <<input, output>>

ParserNext ==
    \/ ReadValue
    \/ ReadObjectPeek
    \/ ReadObjectKey
    \/ ReadObjectColon
    \/ ReadObjectSep
    \/ ReadArrayPeek
    \/ ReadArraySep

Next == Serialize \/ Deserialize \/ ParserNext

Spec == Init /\ [][Next]_vars

---------------------------------------------------------------------------
(* What the properties below speak of.                                     *)

Done == parser.status \in {"ok", "err"}

Decoded(v) == parser.status = "ok" /\ parser.result = Ok(v)

\* Equality of Value trees: numbers by value, objects as maps.
RECURSIVE ValueEq(_, _)
ValueEq(a, b) ==
    /\ a.t = b.t
    /\ CASE a.t = "Number" -> NumEq(a.n, b.n)
         [] a.t = "Array"  ->
              /\ Len(a.a) = Len(b.a)
              /\ \A i \in 1..Len(a.a) : ValueEq(a.a[i], b.a[i])
         [] a.t = "Object" ->
              /\ DOMAIN a.o = DOMAIN b.o
              /\ \A k \in DOMAIN a.o : ValueEq(a.o[k], b.o[k])
         [] OTHER          -> a = b

\* The ASCII control characters with no named escape.
Unescapable == ((0..31) \cup {127}) \ {8, 12, 10, 13, 9}

RECURSIVE Encodable(_)
Encodable(v) ==
    CASE v.t = "String" -> \A i \in 1..Len(v.s) : v.s[i] \notin Unescapable
      [] v.t = "Number" -> v.n.kind = "fin"
      [] v.t = "Array"  -> \A i \in 1..Len(v.a) : Encodable(v.a[i])
      [] v.t = "Object" ->
           \A k \in DOMAIN v.o :
              /\ \A i \in 1..Len(k) : k[i] \notin Unescapable
              /\ Encodable(v.o[k])
      [] OTHER          -> TRUE

\* The bytes JSON calls whitespace, and its structural bytes.
WsBytes == {32, 9, 13, 10}
StructuralBytes == {123, 125, 91, 93, 58, 44}

---------------------------------------------------------------------------
(* C1.  Round trip: for a Value whose strings and keys hold no ASCII       *)
(* control character other than \b \f \n \r \t and whose numbers are       *)
(* finite, serialize returns a text and deserialize of that text is Ok of  *)
(* an equal Value (objects as maps, numbers by value), whatever Unicode    *)
(* scalar values the strings hold.                                         *)
C1_RoundTrip ==
    (input # NoValue /\ Encodable(input)) =>
        /\ output.state # "panicked"
        /\ Done => (parser.result.ok /\ ValueEq(parser.result.value, input))

---------------------------------------------------------------------------
(* C2.  serialize is total: for every Value it returns to its caller; it   *)
(* never aborts the process, also not on a string or key holding an ASCII  *)
(* control character that has no named escape.                             *)
C2_SerializeReturns == output.state # "panicked"

---------------------------------------------------------------------------
(* C3.  Trailing bytes are ignored: if a prefix d of the input decodes to  *)
(* Ok(v), the whole input d followed by t decodes to Ok(v) too.            *)
C3_TrailingBytesIgnored ==
    Done =>
      \A k \in 0..Len(parser.buf) :
         deserialize(SubSeq(parser.buf, 1, k)).ok =>
            parser.result = deserialize(SubSeq(parser.buf, 1, k))

\* The value d decodes to is a bare number, true, false or null that runs
\* to the last byte of d: only the end of the input has ended the term.
EndsInOpenTerm(d) ==
    /\ deserialize(d).value.t \in {"Number", "Boolean", "Null"}
    /\ RunParser(ParserNew(d)).pos = Len(d)

\* d is buf[..k], t the rest: t is empty, or starts with whitespace or a
\* structural byte, or d does not end inside a bare term.
C3_Covers(buf, k) ==
    \/ k = Len(buf)
    \/ buf[k + 1] \in WsBytes \cup StructuralBytes
    \/ ~EndsInOpenTerm(SubSeq(buf, 1, k))

(* C3, amended.  If a prefix d of the input decodes to Ok(v), the whole    *)
(* input d followed by t decodes to Ok(v) too, unless v is a bare number,  *)
(* true, false or null ending at the last byte of d and t starts with a    *)
(* byte that is neither whitespace nor structural.                         *)
C3_TrailingBytesAfterValueIgnored ==
    Done =>
      \A k \in 0..Len(parser.buf) :
         (deserialize(SubSeq(parser.buf, 1, k)).ok /\ C3_Covers(parser.buf, k)) =>
            parser.result = deserialize(SubSeq(parser.buf, 1, k))

\* A decoded input is a value followed by a byte that is neither whitespace
\* nor structural, and the value does not end inside a bare term.
C3_Witness ==
    /\ parser.status = "ok"
    /\ \E k \in 1..(Len(parser.buf) - 1) :
          /\ deserialize(SubSeq(parser.buf, 1, k)).ok
          /\ parser.buf[k + 1] \notin WsBytes \cup StructuralBytes
          /\ ~EndsInOpenTerm(SubSeq(parser.buf, 1, k))

---------------------------------------------------------------------------
(* C4.  Whitespace insensitivity: a run of space, tab, CR, LF inserted     *)
(* before the first token, between two adjacent tokens or after the last   *)
(* one leaves the outcome of deserialize as it is: the same Ok value, or   *)
(* an error in both cases.  The tokens are the tokenizer's: a string       *)
(* literal, a structural byte, or a term, the maximal run of bytes that    *)
(* are neither whitespace nor structural.                                  *)

WsRuns == SeqsUpTo(WsBytes, MaxWs) \ {<<>>}

InsertAt(buf, pos, run) ==
    SubSeq(buf, 1, pos) \o run \o SubSeq(buf, pos + 1, Len(buf))

\* The positions of buf, from pos on, that lie between two tokens, before
\* the first or after the last: the tokenizer is run token after token, as
\* long as it finds a complete lexeme.
RECURSIVE TokenBounds(_, _)
TokenBounds(buf, pos) ==
    LET start == skip_whitespace(buf, pos)
        r     == lex_token(buf, pos)
    IN (pos..start) \cup
       (IF start >= Len(buf) THEN {}
        ELSE IF r.ok \/ buf[start + 1] # QUOTE THEN TokenBounds(buf, r.pos)
        ELSE {})

SameOutcome(a, b) == a.ok = b.ok /\ (a.ok => a.value = b.value)

C4_WhitespaceInsensitive ==
    Done =>
      \A pos \in TokenBounds(parser.buf, 0), run \in WsRuns :
         SameOutcome(deserialize(InsertAt(parser.buf, pos, run)), parser.result)

\* A decoded array of two elements: a tab goes between any two of its
\* five tokens and the array is decoded as before.
C4_Witness ==
    /\ parser.status = "ok"
    /\ parser.result.value.t = "Array"
    /\ Len(parser.result.value.a) = 2
    /\ Cardinality(TokenBounds(parser.buf, 0)) >= 6
    /\ \A pos \in TokenBounds(parser.buf, 0) :
          deserialize(InsertAt(parser.buf, pos, <<9>>)) = parser.result

---------------------------------------------------------------------------
(* C5.  A string literal without a backslash whose content is the UTF-8    *)
(* encoding of the characters cs decodes to the String cs: one decoded     *)
(* character per encoded character, ASCII or not.                          *)
LiteralTable ==
    {<<StringLiteral(cs), cs>> : cs \in SeqsUpTo(LiteralChars, MaxStrLen)}

C5_LiteralDecodesVerbatim ==
    Done =>
      \A e \in LiteralTable :
         parser.buf = e[1] => parser.result = Ok(VString(e[2]))

---------------------------------------------------------------------------
(* C6.  In a string literal, \u takes exactly the 4 bytes after it: when   *)
(* all 4 are hexadecimal digits denoting a Unicode scalar value, that one  *)
(* character is appended and decoding goes on after them; in every other   *)
(* case (a byte that is no hexadecimal digit, fewer than 4 bytes left, a   *)
(* surrogate) deserialize returns an error.                                *)

StartsWithUnicodeEscape(buf) ==
    Len(buf) >= 3 /\ SubSeq(buf, 1, 3) = <<34, 92, 117>>

IsHexDigit(b) == b \in (48..57) \cup (65..70) \cup (97..102)

FourHexDigits(bs) == Len(bs) >= 4 /\ \A i \in 1..4 : IsHexDigit(bs[i])

\* What the literal "\uXXXX<rest> decodes to once XXXX has given ch.
AfterEscape(ch, rest) ==
    IF rest = <<34>> THEN Ok(VString(<<ch>>))
    ELSE IF rest = <<49, 34>> THEN Ok(VString(<<ch, 49>>))
    ELSE Err("EOF")

C6_Expected(bs) ==
    IF FourHexDigits(bs) /\ HexToNat(SubSeq(bs, 1, 4)) \notin 55296..57343
    THEN AfterEscape(HexToNat(SubSeq(bs, 1, 4)), SubSeq(bs, 5, Len(bs)))
    ELSE [ok |-> FALSE]

C6_UnicodeEscape ==
    (Done /\ input = NoValue /\ StartsWithUnicodeEscape(parser.buf)) =>
        LET want == C6_Expected(SubSeq(parser.buf, 4, Len(parser.buf)))
        IN IF want.ok THEN parser.result = want ELSE ~parser.result.ok

---------------------------------------------------------------------------
(* C7.  The encoder writes every non-ASCII character of a string or of an  *)
(* object key as a backslash, a u and exactly 4 upper-case hexadecimal     *)
(* digits giving its code point, and every ASCII character that is no      *)
(* control character and none of " \ / as it is.                           *)

IsUpperHexDigit(b) == b \in (48..57) \cup (65..70)

\* The index in text of the quote that closes the string whose characters
\* s[i..] are written from text[j] on in the way C7 says, 0 if they are not
\* written that way.  ", \, / and the named controls take two bytes.
RECURSIVE C7_ClosingQuote(_, _, _, _)
C7_ClosingQuote(s, i, text, j) ==
    IF i > Len(s) THEN (IF j <= Len(text) /\ text[j] = 34 THEN j ELSE 0)
    ELSE IF s[i] >= 128
         THEN IF /\ j + 5 <= Len(text)
                 /\ text[j] = 92 /\ text[j + 1] = 117
                 /\ \A m \in 2..5 : IsUpperHexDigit(text[j + m])
                 /\ HexToNat(SubSeq(text, j + 2, j + 5)) = s[i]
              THEN C7_ClosingQuote(s, i + 1, text, j + 6)
              ELSE 0
    ELSE IF s[i] \in (32..126) \ {34, 92, 47}
         THEN IF j <= Len(text) /\ text[j] = s[i]
              THEN C7_ClosingQuote(s, i + 1, text, j + 1)
              ELSE 0
    ELSE C7_ClosingQuote(s, i + 1, text, j + 2)

C7_EscapesAsFourHexDigits ==
    output.state = "returned" =>
       /\ input.t = "String" =>
             C7_ClosingQuote(input.s, 1, output.text, 2) = Len(output.text)
       /\ (input.t = "Object" /\ Cardinality(DOMAIN input.o) = 1) =>
             \A k \in DOMAIN input.o :
                output.text[C7_ClosingQuote(k, 1, output.text, 3) + 1] = 58

---------------------------------------------------------------------------
(* C8.  Duplicate keys: an object literal that writes a key more than once *)
(* decodes without an error to an object that holds each key once, with    *)
(* the value of the key's last occurrence.                                 *)

MemberValue(text) ==
    IF text = <<49>> THEN VNumber(Normalize(FALSE, 1, 0))
    ELSE IF text = <<50>> THEN VNumber(Normalize(FALSE, 2, 0))
    ELSE VArray(<<>>)

LastIndexOf(ms, k) ==
    CHOOSE i \in 1..Len(ms) :
       ms[i][1] = k /\ \A j \in (i + 1)..Len(ms) : ms[j][1] # k

LastWins(ms) ==
    [k \in {ms[i][1] : i \in 1..Len(ms)} |-> MemberValue(ms[LastIndexOf(ms, k)][2])]

ObjectTable == {<<ObjectLiteral(ms, FALSE), ms>> : ms \in MemberLists}

C8_LastDuplicateWins ==
    Done =>
      \A e \in ObjectTable :
         parser.buf = e[1] => parser.result = Ok(VObject(LastWins(e[2])))

\* {"a":1,"a":2} has been decoded: "a" is held once, with 2.
C8_Witness ==
    /\ parser.status = "ok"
    /\ parser.buf = ObjectLiteral(<<<<<<97>>, <<49>>>>, <<<<97>>, <<50>>>>>>, FALSE)
    /\ DOMAIN parser.result.value.o = {<<97>>}
    /\ parser.result.value.o[<<97>>] = VNumber(Normalize(FALSE, 2, 0))

---------------------------------------------------------------------------
(* C9.  Where read_object (read_array) peeks for the start of a key (an    *)
(* element) and the peeked token is the closing brace (bracket), the       *)
(* container it returns is empty: one that holds a member or an element is *)
(* closed only by the closing token read where a comma or the closing      *)
(* token is required.                                                      *)
PeeksToken(p, k) == peek_token(p).res.ok /\ peek_token(p).res.tok.k = k

C9_PeekedCloseMeansEmpty ==
    /\ (AtFrame(parser, "read_object", "peek") /\ PeeksToken(parser, "RBrace"))
          => Top(parser).d = EmptyMap
    /\ (AtFrame(parser, "read_array", "peek") /\ PeeksToken(parser, "RAngle"))
          => Top(parser).arr = <<>>

---------------------------------------------------------------------------
(* C10.  deserialize terminates on every input with Ok or Err: the cursor  *)
(* stays within 0..=buf.len(); a running parser always has its next step;  *)
(* every read_token made with an empty cache advances the cursor strictly  *)
(* or returns an error; and every step either ends in an error or uses up  *)
(* input or the cached token, so that no loop of read_object, read_array,  *)
(* read_string, read_term or skip_whitespace goes on for ever.             *)

PosInBuffer == parser.pos \in 0..Len(parser.buf)

Running == parser.status = "running"

\* The step a running parser takes next is one of the seven.
StepApplies ==
    \/ AtReadValue(parser)
    \/ \E pc \in {"peek", "key", "colon", "sep"} : AtFrame(parser, "read_object", pc)
    \/ \E pc \in {"peek", "sep"} : AtFrame(parser, "read_array", pc)

\* What is left to consume: the bytes after the cursor, counted twice, and
\* the token in the cache.
Measure(p) == 2 * (Len(p.buf) - p.pos) + (IF p.cache.some THEN 1 ELSE 0)

\* Every step of a running parser calls read_token; with an empty cache it
\* reads a fresh token.
FreshTokenAdvances ==
    (Running /\ ~parser.cache.some) =>
        (parser'.status = "err" \/ parser'.pos > parser.pos)

StepConsumes ==
    Running => (parser'.status = "err" \/ Measure(parser') < Measure(parser))

C10_Terminates ==
    /\ [](PosInBuffer /\ (Running => StepApplies))
    /\ [][FreshTokenAdvances /\ StepConsumes]_vars

\* A parse of an array inside an array has ended with Ok, after loops in
\* read_array and tokens read from the cache and from the buffer.
C10_Witness ==
    /\ parser.status = "ok"
    /\ parser.result.value.t = "Array"
    /\ \E i \in 1..Len(parser.result.value.a) :
          parser.result.value.a[i].t = "Array"
    /\ parser.pos = Len(parser.buf)

---------------------------------------------------------------------------
===========================================================================
